---- MODULE Spec2Model ----
(***************************************************************************)
(* A model of src/src/06-objects-tasks.js: the CSS selector builder        *)
(* (SelectorBuilder and the cssSelectorBuilder facade), the Rectangle      *)
(* constructor and the getJSON / fromJSON helpers.                         *)
(*                                                                         *)
(* A JavaScript string is a sequence of one-character strings, so that     *)
(* concatenation (+=, template literals) is \o and the text an operation   *)
(* produces can be compared character by character.                        *)
(***************************************************************************)
EXTENDS Integers, Sequences, FiniteSets, TLC

(***************************************************************************)
(* Bounds of the model.                                                    *)
(***************************************************************************)
\* the number of SelectorBuilder objects the facade may create
MaxSelectors == 2
\* the number of characters the selector strings of two or more objects may
\* hold together
MaxChars == 10
\* the number of characters the selector string of a sole object may hold: the
\* length of a compound selector with one fragment of each of the six kinds
MaxChain == 13
\* the number of fragments that may be appended to one object
MaxFragments == 6
\* the number of ordinary objects (rectangles) that may be constructed
MaxObjects == 2

\* the names, attribute expressions and pseudo names passed to fragment calls
Names == {<<"a">>}
\* the combinator tokens passed to combine: the descendant combinator and one
\* that is no CSS combinator at all (combine does not validate)
Combinators == {<<" ">>, <<"x">>}

(***************************************************************************)
(* SelectorBuilder: constants.                                             *)
(***************************************************************************)
ORDER ==
  [initial |-> 0, element |-> 1, id |-> 2, class |-> 3,
   attribute |-> 4, pseudoClass |-> 5, pseudoElement |-> 6]

wrongOrderProblem ==
  "Selector parts should be arranged in the following order: element, id, class, attribute, pseudo-class, pseudo-element"

uniquenessProblem ==
  "Element, id and pseudo-element should not occur more then one time inside the selector"

\* the "threw" value of a call that returned normally
None == "none"

(***************************************************************************)
(* SelectorBuilder: the methods, as functions from the object (this) to    *)
(* [threw, this]: what was thrown, if anything, and the object afterwards. *)
(***************************************************************************)
constructorAtElement == [selector |-> <<>>, order |-> ORDER.element]

constructor == [selector |-> <<>>, order |-> ORDER.initial]

updateOrderNoOrderCheck(this, order) ==
  IF order = this.order
     /\ order \in {ORDER.element, ORDER.id, ORDER.pseudoElement}
  THEN [threw |-> uniquenessProblem, this |-> this]
  ELSE [threw |-> None, this |-> [this EXCEPT !.order = order]]

updateOrderNoUniqueness(this, order) ==
  IF order < this.order
  THEN [threw |-> wrongOrderProblem, this |-> this]
  ELSE [threw |-> None, this |-> [this EXCEPT !.order = order]]

updateOrderNoPseudoElement(this, order) ==
  IF order = this.order /\ order \in {ORDER.element, ORDER.id}
  THEN [threw |-> uniquenessProblem, this |-> this]
  ELSE IF order < this.order
  THEN [threw |-> wrongOrderProblem, this |-> this]
  ELSE [threw |-> None, this |-> [this EXCEPT !.order = order]]

updateOrderUniqueClass(this, order) ==
  IF order = this.order
     /\ order \in {ORDER.element, ORDER.id, ORDER.class, ORDER.pseudoElement}
  THEN [threw |-> uniquenessProblem, this |-> this]
  ELSE IF order < this.order
  THEN [threw |-> wrongOrderProblem, this |-> this]
  ELSE [threw |-> None, this |-> [this EXCEPT !.order = order]]

updateOrderStrict(this, order) ==
  IF order = this.order
     /\ order \in {ORDER.element, ORDER.id, ORDER.pseudoElement}
  THEN [threw |-> uniquenessProblem, this |-> this]
  ELSE IF order <= this.order
  THEN [threw |-> wrongOrderProblem, this |-> this]
  ELSE [threw |-> None, this |-> [this EXCEPT !.order = order]]

updateOrder(this, order) ==
  IF order = this.order
     /\ order \in {ORDER.element, ORDER.id, ORDER.pseudoElement}
  THEN [threw |-> uniquenessProblem, this |-> this]
  ELSE IF order < this.order
  THEN [threw |-> wrongOrderProblem, this |-> this]
  ELSE [threw |-> None, this |-> [this EXCEPT !.order = order]]

elementAppendFirst(this, name) ==
  updateOrder([this EXCEPT !.selector = @ \o name], ORDER.element)

element(this, name) ==
  LET u == updateOrder(this, ORDER.element)
  IN  IF u.threw # None THEN u
      ELSE [threw |-> None, this |-> [u.this EXCEPT !.selector = @ \o name]]

idAsClass(this, name) ==
  LET u == updateOrder(this, ORDER.id)
  IN  IF u.threw # None THEN u
      ELSE [threw |-> None,
            this |-> [u.this EXCEPT !.selector = @ \o <<".">> \o name]]

id(this, name) ==
  LET u == updateOrder(this, ORDER.id)
  IN  IF u.threw # None THEN u
      ELSE [threw |-> None,
            this |-> [u.this EXCEPT !.selector = @ \o <<"#">> \o name]]

class(this, className) ==
  LET u == updateOrder(this, ORDER.class)
  IN  IF u.threw # None THEN u
      ELSE [threw |-> None,
            this |-> [u.this EXCEPT !.selector = @ \o <<".">> \o className]]

attr(this, attribute) ==
  LET u == updateOrder(this, ORDER.attribute)
  IN  IF u.threw # None THEN u
      ELSE [threw |-> None,
            this |-> [u.this EXCEPT
                        !.selector = @ \o <<"[">> \o attribute \o <<"]">>]]

pseudoClass(this, name) ==
  LET u == updateOrder(this, ORDER.pseudoClass)
  IN  IF u.threw # None THEN u
      ELSE [threw |-> None,
            this |-> [u.this EXCEPT !.selector = @ \o <<":">> \o name]]

pseudoElement(this, name) ==
  LET u == updateOrder(this, ORDER.pseudoElement)
  IN  IF u.threw # None THEN u
      ELSE [threw |-> None,
            this |-> [u.this EXCEPT !.selector = @ \o <<":", ":">> \o name]]

stringify(this) == this.selector

combineNoSpaces(this, selector1, combinator, selector2) ==
  [threw |-> None,
   this |-> [this EXCEPT
               !.selector = stringify(selector1) \o combinator
                            \o stringify(selector2)]]

combineResetOrder(this, selector1, combinator, selector2) ==
  [threw |-> None,
   this |-> [selector |-> stringify(selector1) \o <<" ">> \o combinator
                          \o <<" ">> \o stringify(selector2),
             order |-> ORDER.initial]]

combine(this, selector1, combinator, selector2) ==
  [threw |-> None,
   this |-> [this EXCEPT
               !.selector = stringify(selector1) \o <<" ">> \o combinator
                            \o <<" ">> \o stringify(selector2)]]

(***************************************************************************)
(* JavaScript values and ordinary objects, for Rectangle, getJSON and      *)
(* fromJSON.  A value is a record [t, n, s]; an object is its prototype    *)
(* and its own properties in own-property enumeration order.               *)
(***************************************************************************)
Num(n) == [t |-> "number", n |-> n, s |-> ""]

Str(s) == [t |-> "string", n |-> 0, s |-> s]

Undefined == [t |-> "undefined", n |-> 0, s |-> ""]

NaN == [t |-> "NaN", n |-> 0, s |-> ""]

\* the numbers passed to new Rectangle
Dims == {2, 3}
\* the values in the JSON texts passed to fromJSON ("s" is no numeric string)
JsonValues == {Num(2), Num(3), Str("s")}
\* the keys in the JSON texts passed to fromJSON; "1" is an integer index
JsonKeys == {"width", "height", "1"}

IsIndex(key) == key \in {"0", "1", "2"}

IndexOf(key) == CASE key = "0" -> 0 [] key = "1" -> 1 [] key = "2" -> 2

\* obj[key]
Get(props, key) ==
  IF \E i \in DOMAIN props : props[i].key = key
  THEN props[CHOOSE i \in DOMAIN props : props[i].key = key].value
  ELSE Undefined

\* where a new own property key goes in the enumeration order: integer
\* indices first, ascending, then the other keys in creation order
Position(props, key) ==
  IF IsIndex(key)
  THEN 1 + Cardinality({i \in DOMAIN props :
                          IsIndex(props[i].key)
                          /\ IndexOf(props[i].key) < IndexOf(key)})
  ELSE Len(props) + 1

\* obj[key] = value
Set(props, key, value) ==
  IF \E i \in DOMAIN props : props[i].key = key
  THEN [i \in DOMAIN props |->
          IF props[i].key = key THEN [key |-> key, value |-> value]
          ELSE props[i]]
  ELSE LET p == Position(props, key)
       IN  SubSeq(props, 1, p - 1) \o <<[key |-> key, value |-> value]>>
           \o SubSeq(props, p, Len(props))

\* Object.values(obj)
ObjectValues(props) == [i \in DOMAIN props |-> props[i].value]

\* Object.keys(obj), as values
ObjectKeys(props) == [i \in DOMAIN props |-> Str(props[i].key)]

\* the operand of * as a number
ToNumber(v) == IF v.t = "number" THEN v ELSE NaN

Multiply(a, b) ==
  LET x == ToNumber(a)
      y == ToNumber(b)
  IN  IF x.t = "NaN" \/ y.t = "NaN" THEN NaN ELSE Num(x.n * y.n)

(***************************************************************************)
(* JSON texts, as the sequence of their tokens.                            *)
(***************************************************************************)
Punct(c) == [tok |-> c, n |-> 0, s |-> ""]

StringToken(s) == [tok |-> "string", n |-> 0, s |-> s]

NumberToken(n) == [tok |-> "number", n |-> n, s |-> ""]

\* the text of a value
ValueToken(v) == IF v.t = "number" THEN NumberToken(v.n) ELSE StringToken(v.s)

\* the value of a token
TokenValue(t) == IF t.tok = "number" THEN Num(t.n) ELSE Str(t.s)

RECURSIVE SerializeMembers(_, _)
SerializeMembers(props, first) ==
  IF props = <<>> THEN <<>>
  ELSE IF Head(props).value.t \in {"undefined", "function"}
  THEN SerializeMembers(Tail(props), first)
  ELSE (IF first THEN <<>> ELSE <<Punct(",")>>)
       \o <<StringToken(Head(props).key), Punct(":"),
            ValueToken(Head(props).value)>>
       \o SerializeMembers(Tail(props), FALSE)

\* JSON.stringify(obj) of an ordinary object: its own enumerable properties
\* in enumeration order, those with an undefined value left out
JSONstringify(obj) ==
  <<Punct("{")>> \o SerializeMembers(obj.props, TRUE) \o <<Punct("}")>>

RECURSIVE ParseMembers(_, _, _)
ParseMembers(text, i, props) ==
  IF text[i].tok = "}" THEN props
  ELSE LET made == Set(props, text[i].s, TokenValue(text[i + 2]))
       IN  IF text[i + 3].tok = "," THEN ParseMembers(text, i + 4, made)
           ELSE made

\* JSON.parse(json) of the text of an object: the members are defined in
\* text order, a repeated key overwriting the value it had
JSONparse(text) == [proto |-> "Object", props |-> ParseMembers(text, 2, <<>>)]

(***************************************************************************)
(* Rectangle, getJSON, fromJSON.  The heap of ordinary objects is objs;    *)
(* getAreaThis is the object that the arrow function now stored in         *)
(* Rectangle.prototype.getArea has captured as this (0: no function yet).  *)
(***************************************************************************)
\* new Rectangle(width, height) where args holds the arguments passed
Rectangle(os, args) ==
  LET width == IF Len(args) >= 1 THEN args[1] ELSE Undefined
      height == IF Len(args) >= 2 THEN args[2] ELSE Undefined
      this == [proto |-> "Rectangle",
               props |-> Set(Set(<<>>, "width", width), "height", height)]
  IN  [objs |-> Append(os, this), getAreaThis |-> Len(os) + 1,
       ref |-> Len(os) + 1]

\* r.getArea(): the function found on the prototype, whatever r is
getArea(os, captured, r) ==
  Multiply(Get(os[captured].props, "width"), Get(os[captured].props, "height"))

getJSON(obj) == JSONstringify(obj)

fromJSONKeys(os, proto, json) ==
  LET obj == JSONparse(json)
      values == ObjectKeys(obj.props)
  IN  [made |-> Rectangle(os, values), values |-> values]

\* fromJSON(Rectangle.prototype, json)
fromJSON(os, proto, json) ==
  LET obj == JSONparse(json)
      values == ObjectValues(obj.props)
  IN  [made |-> Rectangle(os, values), values |-> values]

(***************************************************************************)
(* The state: the SelectorBuilder objects created so far, by reference,    *)
(* and the ordinary objects.                                               *)
(***************************************************************************)
VARIABLES
  objs,         \* objs[o]: the ordinary object o, [proto, props]
  getAreaThis,  \* the this captured by Rectangle.prototype.getArea
  lastObj,      \* the last call of Rectangle, getArea, getJSON or fromJSON

  heap,      \* heap[s]: the fields of the SelectorBuilder object s
  appended,  \* appended[s]: the fragments successfully appended to s, in
             \* call order, as [rank, arg] (history, not read by the code)
  combined,  \* combined[s]: combine has been called on s (history)
  last       \* the call made last: its receiver, arguments and outcome

selVars == <<heap, appended, combined, last>>

objVars == <<objs, getAreaThis, lastObj>>

vars == <<heap, appended, combined, last, objs, getAreaThis, lastObj>>

\* new SelectorBuilder(): the heap with the new object and the reference to it
newShared(h) ==
  IF h = <<>> THEN [heap |-> <<constructor>>, ref |-> 1]
  ELSE [heap |-> [h EXCEPT ![1] = constructor], ref |-> 1]

new(h) == [heap |-> Append(h, constructor), ref |-> Len(h) + 1]

RECURSIVE Chars(_)
Chars(h) == IF h = <<>> THEN 0 ELSE Len(Head(h).selector) + Chars(Tail(h))

Fits(h) ==
  /\ Len(h) <= MaxSelectors
  /\ Chars(h) <= IF Len(h) <= 1 THEN MaxChain ELSE MaxChars

\* facade: the call went through cssSelectorBuilder; sel: the receiver (for a
\* facade call, the object new returned); retObj, retStr: what was returned
NoCall ==
  [op |-> "none", facade |-> FALSE, sel |-> 0, rank |-> 0, arg |-> <<>>,
   left |-> 0, right |-> 0, threw |-> None, retObj |-> 0, retStr |-> <<>>]

SelInit ==
  /\ heap = <<>>
  /\ appended = <<>>
  /\ combined = <<>>
  /\ last = NoCall

NoObjCall ==
  [op |-> "none", obj |-> 0, args |-> <<>>, json |-> <<>>, source |-> 0,
   ret |-> Undefined]

ObjInit ==
  /\ objs = <<>>
  /\ getAreaThis = 0
  /\ lastObj = NoObjCall

Init == SelInit /\ ObjInit

\* the histories follow the heap: a new object has no fragments and has not
\* been combined
Grown(h, a) == IF Len(h) > Len(a) THEN Append(a, <<>>) ELSE a

GrownFlags(h, c) == IF Len(h) > Len(c) THEN Append(c, FALSE) ELSE c

\* A fragment method called on the object s of heap h, with result res.
Fragment(facade, h, s, op, rank, name, res) ==
  /\ Fits([h EXCEPT ![s] = res.this])
  /\ res.threw = None => Len(Grown(h, appended)[s]) < MaxFragments
  /\ heap' = [h EXCEPT ![s] = res.this]
  /\ appended' = IF res.threw = None
                 THEN [Grown(h, appended) EXCEPT
                         ![s] = Append(@, [rank |-> rank, arg |-> name])]
                 ELSE Grown(h, appended)
  /\ combined' = GrownFlags(h, combined)
  /\ last' = [NoCall EXCEPT !.op = op, !.facade = facade, !.sel = s,
                !.rank = rank, !.arg = name, !.threw = res.threw,
                !.retObj = IF res.threw = None THEN s ELSE 0]
  /\ UNCHANGED objVars

\* selector.element(name) and the like, on an existing object
Element(s, name) ==
  Fragment(FALSE, heap, s, "element", ORDER.element, name,
           element(heap[s], name))

Id(s, name) ==
  Fragment(FALSE, heap, s, "id", ORDER.id, name, id(heap[s], name))

Class(s, name) ==
  Fragment(FALSE, heap, s, "class", ORDER.class, name, class(heap[s], name))

Attr(s, name) ==
  Fragment(FALSE, heap, s, "attr", ORDER.attribute, name,
           attr(heap[s], name))

PseudoClass(s, name) ==
  Fragment(FALSE, heap, s, "pseudoClass", ORDER.pseudoClass, name,
           pseudoClass(heap[s], name))

PseudoElement(s, name) ==
  Fragment(FALSE, heap, s, "pseudoElement", ORDER.pseudoElement, name,
           pseudoElement(heap[s], name))

\* selector.combine(selector1, combinator, selector2) on an existing object
Combine(s, l, combinator, r) ==
  LET res == combine(heap[s], heap[l], combinator, heap[r])
  IN  /\ Fits([heap EXCEPT ![s] = res.this])
      /\ heap' = [heap EXCEPT ![s] = res.this]
      /\ appended' = appended
      /\ combined' = [combined EXCEPT ![s] = TRUE]
      /\ last' = [NoCall EXCEPT !.op = "combine", !.sel = s,
                    !.arg = combinator, !.left = l, !.right = r,
                    !.threw = res.threw, !.retObj = s]
      /\ UNCHANGED objVars

\* a stringify that hands the string out and starts the builder afresh
StringifyAndReset(s) ==
  /\ last' = [NoCall EXCEPT !.op = "stringify", !.sel = s,
                !.retStr = stringify(heap[s])]
  /\ heap' = [heap EXCEPT ![s] = constructor]
  /\ UNCHANGED <<appended, combined>>
  /\ UNCHANGED objVars

\* selector.stringify()
Stringify(s) ==
  /\ last' = [NoCall EXCEPT !.op = "stringify", !.sel = s,
                !.retStr = stringify(heap[s])]
  /\ UNCHANGED <<heap, appended, combined>>
  /\ UNCHANGED objVars

\* cssSelectorBuilder.element(name) and the like: new SelectorBuilder(), then
\* the method on the new object
CssElement(name) ==
  LET n == new(heap)
  IN  Fragment(TRUE, n.heap, n.ref, "element", ORDER.element, name,
               element(n.heap[n.ref], name))

CssId(name) ==
  LET n == new(heap)
  IN  Fragment(TRUE, n.heap, n.ref, "id", ORDER.id, name,
               id(n.heap[n.ref], name))

CssClass(name) ==
  LET n == new(heap)
  IN  Fragment(TRUE, n.heap, n.ref, "class", ORDER.class, name,
               class(n.heap[n.ref], name))

CssAttr(name) ==
  LET n == new(heap)
  IN  Fragment(TRUE, n.heap, n.ref, "attr", ORDER.attribute, name,
               attr(n.heap[n.ref], name))

CssPseudoClass(name) ==
  LET n == new(heap)
  IN  Fragment(TRUE, n.heap, n.ref, "pseudoClass", ORDER.pseudoClass, name,
               pseudoClass(n.heap[n.ref], name))

CssPseudoElement(name) ==
  LET n == new(heap)
  IN  Fragment(TRUE, n.heap, n.ref, "pseudoElement", ORDER.pseudoElement, name,
               pseudoElement(n.heap[n.ref], name))

\* cssSelectorBuilder.combine(selector1, combinator, selector2)
CssCombine(l, combinator, r) ==
  LET n == new(heap)
      res == combine(n.heap[n.ref], n.heap[l], combinator, n.heap[r])
      h == [n.heap EXCEPT ![n.ref] = res.this]
  IN  /\ Fits(h)
      /\ heap' = h
      /\ appended' = Grown(n.heap, appended)
      /\ combined' = [GrownFlags(n.heap, combined) EXCEPT ![n.ref] = TRUE]
      /\ last' = [NoCall EXCEPT !.op = "combine", !.facade = TRUE,
                    !.sel = n.ref,
                    !.arg = combinator, !.left = l, !.right = r,
                    !.threw = res.threw, !.retObj = n.ref]
      /\ UNCHANGED objVars

SelNext ==
  \/ \E name \in Names : CssElement(name)
  \/ \E name \in Names : CssId(name)
  \/ \E name \in Names : CssClass(name)
  \/ \E name \in Names : CssAttr(name)
  \/ \E name \in Names : CssPseudoClass(name)
  \/ \E name \in Names : CssPseudoElement(name)
  \/ \E l, r \in DOMAIN heap : \E c \in Combinators : CssCombine(l, c, r)
  \/ \E s \in DOMAIN heap : \E name \in Names : Element(s, name)
  \/ \E s \in DOMAIN heap : \E name \in Names : Id(s, name)
  \/ \E s \in DOMAIN heap : \E name \in Names : Class(s, name)
  \/ \E s \in DOMAIN heap : \E name \in Names : Attr(s, name)
  \/ \E s \in DOMAIN heap : \E name \in Names : PseudoClass(s, name)
  \/ \E s \in DOMAIN heap : \E name \in Names : PseudoElement(s, name)
  \/ \E s, l, r \in DOMAIN heap : \E c \in Combinators : Combine(s, l, c, r)
  \/ \E s \in DOMAIN heap : Stringify(s)

(***************************************************************************)
(* The operations on ordinary objects.                                     *)
(***************************************************************************)
\* the JSON texts passed to fromJSON: objects of up to two members
JsonMembers == {[key |-> k, value |-> v] : k \in JsonKeys, v \in JsonValues}

JsonTexts ==
  {JSONstringify([proto |-> "Object", props |-> ms]) :
     ms \in {<<>>} \cup {<<m>> : m \in JsonMembers}
            \cup {<<m1, m2>> : m1 \in JsonMembers, m2 \in JsonMembers}}

\* const r = new Rectangle(width, height)
NewRectangle(width, height) ==
  LET made == Rectangle(objs, <<Num(width), Num(height)>>)
  IN  /\ Len(objs) < MaxObjects
      /\ objs' = made.objs
      /\ getAreaThis' = made.getAreaThis
      /\ lastObj' = [NoObjCall EXCEPT !.op = "Rectangle", !.obj = made.ref,
                       !.args = <<Num(width), Num(height)>>]
      /\ UNCHANGED selVars

\* r.getArea()
GetArea(r) ==
  /\ objs[r].proto = "Rectangle"
  /\ lastObj' = [NoObjCall EXCEPT !.op = "getArea", !.obj = r,
                   !.ret = getArea(objs, getAreaThis, r)]
  /\ UNCHANGED <<objs, getAreaThis>>
  /\ UNCHANGED selVars

\* getJSON(o)
GetJSON(o) ==
  /\ lastObj' = [NoObjCall EXCEPT !.op = "getJSON", !.obj = o,
                   !.json = getJSON(objs[o])]
  /\ UNCHANGED <<objs, getAreaThis>>
  /\ UNCHANGED selVars

\* fromJSON(Rectangle.prototype, json); source is the object whose getJSON
\* text json is, when the call before returned that text
FromJSON(json) ==
  LET res == fromJSON(objs, "Rectangle", json)
  IN  /\ Len(objs) < MaxObjects
      /\ objs' = res.made.objs
      /\ getAreaThis' = res.made.getAreaThis
      /\ lastObj' = [NoObjCall EXCEPT !.op = "fromJSON",
                       !.obj = res.made.ref, !.args = res.values,
                       !.json = json,
                       !.source = IF lastObj.op = "getJSON"
                                     /\ lastObj.json = json
                                  THEN lastObj.obj ELSE 0]
      /\ UNCHANGED selVars

ObjNext ==
  \/ \E width, height \in Dims : NewRectangle(width, height)
  \/ \E r \in DOMAIN objs : GetArea(r)
  \/ \E o \in DOMAIN objs : GetJSON(o)
  \/ \E json \in JsonTexts : FromJSON(json)

Spec == Init /\ [][SelNext]_vars

SpecObjects == Init /\ [][ObjNext]_vars

(***************************************************************************)
(* Vocabulary of the properties.                                           *)
(***************************************************************************)
FragmentOps ==
  {"element", "id", "class", "attr", "pseudoClass", "pseudoElement"}

UniqueRanks == {ORDER.element, ORDER.id, ORDER.pseudoElement}

\* the fragments appended to the receiver of the last call before that call
Before ==
  IF last.threw = None /\ last.op \in FragmentOps
  THEN SubSeq(appended[last.sel], 1, Len(appended[last.sel]) - 1)
  ELSE appended[last.sel]

\* the rank of the fragment appended last, Initial if there is none
LastRank(log) == IF log = <<>> THEN ORDER.initial ELSE log[Len(log)].rank

RanksOf(log) == {log[i].rank : i \in DOMAIN log}

\* the text of a fragment: name, #name, .name, [spec], :name, ::name
FragmentText(f) ==
  CASE f.rank = 1 -> f.arg
    [] f.rank = 2 -> <<"#">> \o f.arg
    [] f.rank = 3 -> <<".">> \o f.arg
    [] f.rank = 4 -> <<"[">> \o f.arg \o <<"]">>
    [] f.rank = 5 -> <<":">> \o f.arg
    [] f.rank = 6 -> <<":", ":">> \o f.arg

RECURSIVE Concatenation(_)
Concatenation(log) ==
  IF log = <<>> THEN <<>>
  ELSE FragmentText(Head(log)) \o Concatenation(Tail(log))

\* C1: the ranks of the fragments successfully appended to a selector form a
\* non-decreasing sequence.
MonotonicOrder ==
  \A s \in DOMAIN appended :
    \A i, j \in DOMAIN appended[s] :
      i < j => appended[s][i].rank <= appended[s][j].rank

\* a selector holding fragments of three kinds has just refused a fragment of
\* a lower rank
MonotonicOrderWitness ==
  /\ last.op \in FragmentOps
  /\ last.threw = wrongOrderProblem
  /\ Cardinality(RanksOf(appended[last.sel])) >= 3

\* C2: at most one Element, one Id and one PseudoElement fragment are ever
\* appended to a selector, also after failed calls and after combine on it.
Uniqueness ==
  \A s \in DOMAIN appended :
    \A r \in UniqueRanks :
      Cardinality({i \in DOMAIN appended[s] : appended[s][i].rank = r}) <= 1

\* a selector on which combine was called, and that holds a fragment of a
\* unique kind, has just refused a second fragment of that kind
UniquenessWitness ==
  /\ last.op \in FragmentOps
  /\ last.threw = uniquenessProblem
  /\ combined[last.sel]
  /\ last.rank \in RanksOf(appended[last.sel])

\* C3: a fragment call that keeps the ranks non-decreasing and uses no unique
\* kind twice raises nothing, and the string of a selector built by fragment
\* calls alone is the concatenation of the fragment texts in call order.
ValidCall ==
  /\ \A i \in DOMAIN Before : Before[i].rank <= last.rank
  /\ last.rank \in UniqueRanks => last.rank \notin RanksOf(Before)

ValidSequences ==
  /\ last.op \in FragmentOps /\ ValidCall => last.threw = None
  /\ \A s \in DOMAIN heap :
       ~combined[s] => stringify(heap[s]) = Concatenation(appended[s])
  /\ last.op = "stringify" /\ ~combined[last.sel]
       => last.retStr = Concatenation(appended[last.sel])

\* stringify has returned a#a.a[a]:a::a for a selector of all six kinds
ValidSequencesWitness ==
  /\ last.op = "stringify"
  /\ ~combined[last.sel]
  /\ [i \in DOMAIN appended[last.sel] |-> appended[last.sel][i].rank]
       = <<1, 2, 3, 4, 5, 6>>
  /\ last.retStr
       = <<"a", "#", "a", ".", "a", "[", "a", "]", ":", "a", ":", ":", "a">>

\* C4: a fragment call raises OrderViolation exactly when its rank is
\* strictly lower than the rank of the fragment appended last.
OrderViolationExactly ==
  last.op \in FragmentOps =>
    (last.threw = wrongOrderProblem <=> last.rank < LastRank(Before))

\* a selector that accepted two fragments of equal rank in a row has just
\* refused a fragment of a lower rank
OrderViolationWitness ==
  /\ last.op \in FragmentOps
  /\ last.threw = wrongOrderProblem
  /\ last.rank < LastRank(Before)
  /\ \E i \in DOMAIN Before :
       i > 1 /\ Before[i].rank = Before[i - 1].rank

\* C5 as stated: once a fragment of a unique kind has been appended, every
\* further call of that kind raises DuplicateViolation.
DuplicateAlways ==
  /\ last.op \in FragmentOps
  /\ last.rank \in UniqueRanks
  /\ last.rank \in RanksOf(Before)
  => last.threw = uniquenessProblem

\* C5 as amended: such a call never succeeds; it raises DuplicateViolation
\* when that fragment is still the one appended last, and OrderViolation
\* when a fragment of a higher rank has been appended since.
DuplicateOrOrder ==
  /\ last.op \in FragmentOps
  /\ last.rank \in UniqueRanks
  /\ last.rank \in RanksOf(Before)
  => last.threw = IF LastRank(Before) = last.rank
                  THEN uniquenessProblem ELSE wrongOrderProblem

\* a second pseudoElement() right after the first, refused as a duplicate
DuplicateOrOrderWitness ==
  /\ last.op = "pseudoElement"
  /\ LastRank(Before) = ORDER.pseudoElement
  /\ last.threw = uniquenessProblem

\* C6: combine never fails, and the string of the selector it returns is the
\* left string, a space, the token, a space and the right string, the
\* operands' strings being those at the time of the call; the descendant
\* token gives three spaces in a row between the operands.
CombineResult ==
  [][last'.op = "combine" =>
       LET l == heap[last'.left].selector
           r == heap[last'.right].selector
           out == heap'[last'.retObj].selector
       IN  /\ last'.threw = None
           /\ last'.retObj = last'.sel
           /\ out = l \o <<" ">> \o last'.arg \o <<" ">> \o r
           /\ last'.arg = <<" ">> =>
                /\ SubSeq(out, Len(l) + 1, Len(l) + 3) = <<" ", " ", " ">>
                /\ SubSeq(out, Len(l) + 4, Len(out)) = r]_selVars

\* combine with the descendant token on operands that are themselves the
\* result of a combine with another token: a x a, then a x a   a x a
CombineResultWitness ==
  /\ last.op = "combine"
  /\ last.arg = <<" ">>
  /\ heap[last.sel].selector
       = <<"a", " ", "x", " ", "a", " ", " ", " ", "a", " ", "x", " ", "a">>

\* C7 as stated: no fragment call on a selector that combine returned raises
\* OrderViolation or DuplicateViolation.
NoConstraintsAfterCombine ==
  last.op \in FragmentOps /\ combined[last.sel] => last.threw = None

\* C7 as amended: combine does not touch the rank, so the selector that
\* cssSelectorBuilder.combine returns is at rank Initial and the first
\* fragment call on it, of any kind, raises nothing; from then on, and on a
\* selector that already held fragments when combine was called on it, a
\* fragment call is checked against the fragments appended to that object
\* as on any other selector.
ConstraintsAfterCombine ==
  /\ last.op = "combine" /\ last.facade
       => heap[last.sel].order = ORDER.initial /\ appended[last.sel] = <<>>
  /\ last.op \in FragmentOps /\ combined[last.sel] =>
       /\ Before = <<>> => last.threw = None
       /\ last.threw = wrongOrderProblem <=> last.rank < LastRank(Before)
       /\ last.threw = uniquenessProblem
            <=> last.rank = LastRank(Before) /\ last.rank \in UniqueRanks

\* the selector cssSelectorBuilder.combine returned took an element and has
\* just refused a second one
ConstraintsAfterCombineWitness ==
  /\ last.op = "element"
  /\ last.threw = uniquenessProblem
  /\ combined[last.sel]
  /\ appended[last.sel] = <<[rank |-> ORDER.element, arg |-> <<"a">>]>>
  /\ heap[last.sel].selector = <<"a", " ", "x", " ", "a", "a">>

\* C9: a facade call works on an object that did not exist before, and a
\* call changes the string and the rank of no object but its receiver: the
\* operands of a facade combine keep theirs, and so does a combined selector
\* when fragments are appended to its operands later.
SelectorIndependence ==
  [][/\ \A s \in DOMAIN heap :
          s # last'.sel => s \in DOMAIN heap' /\ heap'[s] = heap[s]
     /\ last'.facade =>
          /\ last'.sel \notin DOMAIN heap
          /\ DOMAIN heap' = DOMAIN heap \cup {last'.sel}
     /\ ~last'.facade => DOMAIN heap' = DOMAIN heap]_selVars

\* a fragment has just been appended to the left operand of an earlier
\* combine, and the combined selector still starts with the operand's old
\* string
SelectorIndependenceWitness ==
  /\ last.op \in FragmentOps
  /\ last.threw = None
  /\ ~combined[last.sel]
  /\ \E c \in DOMAIN heap :
       /\ c # last.sel
       /\ combined[c]
       /\ LET old == Concatenation(Before)
          IN  /\ old # <<>>
              /\ Len(heap[c].selector) > Len(old)
              /\ SubSeq(heap[c].selector, 1, Len(old) + 1) = old \o <<" ">>

\* C8: getArea() called on a rectangle returns the width times the height
\* of that rectangle, whatever other rectangles were constructed since.
AreaPerInstance ==
  /\ lastObj.op = "getArea"
  /\ Get(objs[lastObj.obj].props, "width").t = "number"
  /\ Get(objs[lastObj.obj].props, "height").t = "number"
  => lastObj.ret = Num(Get(objs[lastObj.obj].props, "width").n
                       * Get(objs[lastObj.obj].props, "height").n)

\* the members of a JSON text, in text order
MembersOf(text) ==
  [i \in 1..((Len(text) - 1) \div 4) |->
     [key |-> text[4 * i - 2].s, value |-> TokenValue(text[4 * i])]]

KeysOf(ms) == {ms[i].key : i \in DOMAIN ms}

FirstAt(ms, k) ==
  CHOOSE i \in DOMAIN ms :
    ms[i].key = k /\ \A j \in DOMAIN ms : ms[j].key = k => i <= j

LastAt(ms, k) ==
  CHOOSE i \in DOMAIN ms :
    ms[i].key = k /\ \A j \in DOMAIN ms : ms[j].key = k => j <= i

\* the place of key k in the own key enumeration order of the parsed
\* object: integer indices ascending, then the other keys as first met
PlaceOf(ms, k) ==
  IF IsIndex(k)
  THEN 1 + Cardinality({q \in KeysOf(ms) :
                          IsIndex(q) /\ IndexOf(q) < IndexOf(k)})
  ELSE 1 + Cardinality({q \in KeysOf(ms) : IsIndex(q)})
         + Cardinality({q \in KeysOf(ms) :
                          ~IsIndex(q) /\ FirstAt(ms, q) < FirstAt(ms, k)})

\* C10: fromJSON passes the constructor exactly the values of the parsed
\* object, in the object's own key enumeration order, the constructor
\* assigns them to width and height in that order, and fromJSON of the
\* getJSON text of an object built by Rectangle is a new Rectangle object
\* with the same field values.
JSONRoundTrip ==
  lastObj.op = "fromJSON" =>
    LET ms == MembersOf(lastObj.json)
        made == objs[lastObj.obj]
        arg(i) == IF i <= Len(lastObj.args) THEN lastObj.args[i]
                  ELSE Undefined
    IN  /\ Len(lastObj.args) = Cardinality(KeysOf(ms))
        /\ \A k \in KeysOf(ms) :
             lastObj.args[PlaceOf(ms, k)] = ms[LastAt(ms, k)].value
        /\ made.proto = "Rectangle"
        /\ [i \in DOMAIN made.props |-> made.props[i].key]
             = <<"width", "height">>
        /\ made.props[1].value = arg(1)
        /\ made.props[2].value = arg(2)
        /\ lastObj.source # 0 =>
             /\ lastObj.obj # lastObj.source
             /\ made.proto = objs[lastObj.source].proto
             /\ made.props = objs[lastObj.source].props

\* fromJSON(Rectangle.prototype, getJSON(r)) for r = new Rectangle(2, 3) has
\* just returned a second rectangle of width 2 and height 3
JSONRoundTripWitness ==
  /\ lastObj.op = "fromJSON"
  /\ lastObj.source # 0
  /\ lastObj.obj # lastObj.source
  /\ objs[lastObj.source].props
       = <<[key |-> "width", value |-> Num(2)],
           [key |-> "height", value |-> Num(3)]>>
  /\ Get(objs[lastObj.obj].props, "width") = Num(2)
  /\ Get(objs[lastObj.obj].props, "height") = Num(3)

\* the receiver of the call a step makes, as it was before the call; a
\* facade call works on the object new SelectorBuilder() has just made
Receiver == IF last'.sel \in DOMAIN heap THEN heap[last'.sel] ELSE constructor

\* the fragments appended to that receiver before the call
ReceiverLog ==
  IF last'.sel \in DOMAIN appended THEN appended[last'.sel] ELSE <<>>

\* C11: a fragment call that raises OrderViolation or DuplicateViolation
\* leaves the string and the rank of its receiver (and everything else) as
\* they were, so every fragment call has the same outcome and effect after
\* the failed call as before it.
FailureAtomicity ==
  [][last'.op \in FragmentOps /\ last'.threw # None =>
       /\ last'.sel \in DOMAIN heap
       /\ heap' = heap
       /\ appended' = appended
       /\ last'.retObj = 0
       /\ \A name \in Names :
            /\ element(heap'[last'.sel], name) = element(Receiver, name)
            /\ id(heap'[last'.sel], name) = id(Receiver, name)
            /\ class(heap'[last'.sel], name) = class(Receiver, name)
            /\ attr(heap'[last'.sel], name) = attr(Receiver, name)
            /\ pseudoClass(heap'[last'.sel], name)
                 = pseudoClass(Receiver, name)
            /\ pseudoElement(heap'[last'.sel], name)
                 = pseudoElement(Receiver, name)]_vars

\* element() has just been refused on a#a.a, which is still a#a.a at rank
\* Class
FailureAtomicityWitness ==
  /\ last.op = "element"
  /\ last.threw = wrongOrderProblem
  /\ heap[last.sel] = [selector |-> <<"a", "#", "a", ".", "a">>,
                       order |-> ORDER.class]

\* The algorithm as specified, on the state (string, last-recorded rank,
\* unique kinds recorded): the order check first, then the uniqueness check
\* against the set of unique kinds, then the append.
SpecifiedFragment(state, rank, name) ==
  IF rank < state.rank
  THEN [outcome |-> wrongOrderProblem, state |-> state]
  ELSE IF rank \in UniqueRanks /\ rank \in state.used
  THEN [outcome |-> uniquenessProblem, state |-> state]
  ELSE [outcome |-> None,
        state |-> [string |-> state.string
                               \o FragmentText([rank |-> rank, arg |-> name]),
                   rank |-> rank,
                   used |-> state.used \cup ({rank} \cap UniqueRanks)]]

\* C12: every fragment call has the outcome, and leaves the string and the
\* rank, that the specified algorithm gives on the receiver's string, the
\* rank of the fragment appended last and the unique kinds appended so far.
CheckOrderEquivalence ==
  [][last'.op \in FragmentOps =>
       LET specified ==
             SpecifiedFragment(
               [string |-> Receiver.selector,
                rank |-> LastRank(ReceiverLog),
                used |-> RanksOf(ReceiverLog) \cap UniqueRanks],
               last'.rank, last'.arg)
       IN  /\ last'.threw = specified.outcome
           /\ heap'[last'.sel].selector = specified.state.string
           /\ heap'[last'.sel].order = specified.state.rank]_vars

\* element() on a selector that holds an element and a class: the kind is
\* recorded as used and its rank is below the last one; both algorithms
\* answer OrderViolation
CheckOrderEquivalenceWitness ==
  /\ last.op = "element"
  /\ last.threw = wrongOrderProblem
  /\ RanksOf(appended[last.sel]) = {ORDER.element, ORDER.class}
  /\ heap[last.sel].order = ORDER.class

\* the highest rank in a log, Initial if it is empty
HighestRank(log) ==
  CHOOSE m \in RanksOf(log) \cup {ORDER.initial} :
    \A q \in RanksOf(log) \cup {ORDER.initial} : q <= m

\* C13: the rank of every selector is within 0..6, is Initial while no
\* fragment has been appended to it, and is otherwise the rank of the
\* fragment appended last, which is the highest rank appended; a successful
\* fragment call sets it to the rank of its fragment, and stringify, combine
\* and a failing call leave it as it was.
RankBookkeeping ==
  /\ [](\A s \in DOMAIN heap :
          /\ heap[s].order \in 0..6
          /\ appended[s] = <<>> => heap[s].order = ORDER.initial
          /\ heap[s].order = LastRank(appended[s])
          /\ heap[s].order = HighestRank(appended[s]))
  /\ [][/\ last'.op \in FragmentOps /\ last'.threw = None
             => heap'[last'.sel].order = last'.rank
        /\ last'.op \in {"stringify", "combine"} \/ last'.threw # None
             => heap'[last'.sel].order = Receiver.order]_vars

\* combine has just been called on a selector at rank Class, which it still
\* has
RankBookkeepingWitness ==
  /\ last.op = "combine"
  /\ ~last.facade
  /\ LastRank(appended[last.sel]) = ORDER.class
  /\ heap[last.sel].order = ORDER.class

\* C14: stringify never fails, returns the accumulated string and changes no
\* string and no rank, so a second call returns the same string and later
\* fragment calls meet the same checks; a successful fragment call returns
\* the object it was called on.
StringifyPure ==
  /\ [][last'.op = "stringify" =>
          /\ last'.threw = None
          /\ last'.retStr = heap[last'.sel].selector
          /\ heap' = heap
          /\ last'.retStr = stringify(heap'[last'.sel])]_vars
  /\ [](last.op \in FragmentOps /\ last.threw = None
          => last.retObj = last.sel)

\* stringify has just returned a x a.a for a combined selector that was
\* extended by a class afterwards
StringifyPureWitness ==
  /\ last.op = "stringify"
  /\ combined[last.sel]
  /\ appended[last.sel] # <<>>
  /\ last.retStr = <<"a", " ", "x", " ", "a", ".", "a">>

\* the ranks of the fragments a compound selector string shows, from its
\* i-th character on: # . [ : and :: open a fragment, and so does a name
\* that no such character introduces
RECURSIVE RanksShown(_, _)
RanksShown(str, i) ==
  IF i > Len(str) THEN <<>>
  ELSE CASE str[i] = "#" -> <<ORDER.id>> \o RanksShown(str, i + 1)
         [] str[i] = "." -> <<ORDER.class>> \o RanksShown(str, i + 1)
         [] str[i] = "[" -> <<ORDER.attribute>> \o RanksShown(str, i + 1)
         [] str[i] = ":" ->
              IF i < Len(str) /\ str[i + 1] = ":"
              THEN <<ORDER.pseudoElement>> \o RanksShown(str, i + 2)
              ELSE <<ORDER.pseudoClass>> \o RanksShown(str, i + 1)
         [] str[i] = "]" -> RanksShown(str, i + 1)
         [] OTHER ->
              IF i = 1 \/ str[i - 1] = "]"
              THEN <<ORDER.element>> \o RanksShown(str, i + 1)
              ELSE RanksShown(str, i + 1)

\* a compound selector: no space, fragments in non-decreasing rank order,
\* at most one Element, one Id and one PseudoElement
Compound(str) ==
  LET ranks == RanksShown(str, 1)
  IN  /\ str # <<>>
      /\ \A i \in DOMAIN str : str[i] # " "
      /\ \A i, j \in DOMAIN ranks : i < j => ranks[i] <= ranks[j]
      /\ \A q \in UniqueRanks :
           Cardinality({i \in DOMAIN ranks : ranks[i] = q}) <= 1

\* compound selectors separated by a space, a token and a space
RECURSIVE WellFormed(_)
WellFormed(str) ==
  \/ Compound(str)
  \/ \E i \in DOMAIN str : \E token \in Combinators :
       /\ Compound(SubSeq(str, 1, i))
       /\ i + 2 + Len(token) < Len(str)
       /\ SubSeq(str, i + 1, i + 2 + Len(token))
            = <<" ">> \o token \o <<" ">>
       /\ WellFormed(SubSeq(str, i + 3 + Len(token), Len(str)))

\* C15: the string of every selector, and so what stringify returns, is a
\* sequence of well-formed compound selectors separated by ' token '.
WellFormedOutput ==
  /\ \A s \in DOMAIN heap : WellFormed(heap[s].selector)
  /\ last.op = "stringify" => WellFormed(last.retStr)

====
